---- MODULE Spec2Model ----
(***************************************************************************)
(* State machine of static/js/script.js: the query state (mode, page       *)
(* counter, stored params), the listing loader with its "show more"        *)
(* affordance, and the cast modal with its credit cache.                   *)
(*                                                                         *)
(* JavaScript runs every handler to its first await without interruption,  *)
(* so each handler is one action up to the fetch it issues, and the        *)
(* continuation after `await fetch` / `await res.json()` is a second       *)
(* action that may interleave with any other handler.                      *)
(***************************************************************************)
EXTENDS Integers, Sequences, FiniteSets, TLC

\* ---------------------------------------------------------------- bounds
\* Listing requests issued in one behaviour.
MaxRequests == 2
\* View-cast clicks in one behaviour.
MaxOpens == 3

\* ------------------------------------------------------ input alphabets
\* Identifiers of the movies whose cards can be opened.
MovieIds == {"m1", "m2"}

\* Keys the apply-filters handler may put into the params.
FilterKeys == {"genre", "year", "min_score", "runtime_min", "runtime_max"}

\* The filter form as the clear / search handlers leave it.
ClearedForm ==
    [genre |-> "", year |-> "", min_score |-> "0", runtime_min |-> "", runtime_max |-> ""]

\* Contents the user can give the filter form.
FormChoices ==
    { ClearedForm,
      [genre |-> "28", year |-> "", min_score |-> "7", runtime_min |-> "", runtime_max |-> ""],
      [genre |-> "", year |-> "2020", min_score |-> "0", runtime_min |-> "90", runtime_max |-> "120"],
      [genre |-> "28", year |-> "2020", min_score |-> "7", runtime_min |-> "90", runtime_max |-> "120"] }

\* Texts the user can have in the search box, as sequences of characters.
SearchTexts == { <<>>, <<" ", " ">>, <<" ", "d", " ">> }

\* Every combination of a set and an unset value of the five filter inputs.
AllForms ==
    [genre : {"", "28"}, year : {"", "2020"}, min_score : {"0", "7"},
     runtime_min : {"", "90"}, runtime_max : {"", "120"}]

\* Options of the search-type select.
SearchTypes == {"title", "actor"}

\* What a listing fetch can come back with:
\*   reject      fetch() rejects (line 163)
\*   unparsable  res.json() rejects (line 164)
\*   badResults  data.results is truthy but no array: forEach throws (line 194)
\*   badItem     an entry of data.results makes the card template throw
\*               after earlier cards were appended (lines 198-232)
\*   ok          the body is processed to the end
ListingOutcomes == {"reject", "unparsable", "badResults", "badItem", "ok"}

\* Values of data.total_pages: absent, null, a value that is no number (it
\* compares as NaN), or an integer.
TotalPagesValues ==
    { [kind |-> "absent", n |-> 0], [kind |-> "null", n |-> 0], [kind |-> "nan", n |-> 0] }
        \cup { [kind |-> "int", n |-> i] : i \in 0..3 }

\* What a credits fetch can come back with: a failure, or a parsed body.
\* A parsed body is a JSON object, as the credits endpoint answers with, and
\* so truthy at line 255. Bodies v1 and v2 are two renderable records (the
\* endpoint may answer differently at different times), bad is an object
\* whose cast cannot be rendered (lines 261-277 throw after it was cached).
CreditFailures == {"reject", "unparsable"}
CreditBodyKinds == {"v1", "v2", "bad"}
CreditOutcomes == CreditFailures \cup CreditBodyKinds

\* ------------------------------------------------------------- helpers
\* An object without keys: {}.
EmptyParams == [k \in {} |-> ""]

NoRecord == [id |-> "", kind |-> "none"]

NoRequest == [id |-> 0, params |-> EmptyParams, qs |-> "", append |-> FALSE]

NoTotalPages == [kind |-> "absent", n |-> 0]

\* String.prototype.trim on a sequence of characters.
IsSpace(c) == c \in {" ", "\t", "\n"}

RECURSIVE TrimLeft(_)
TrimLeft(s) ==
    IF s = <<>> THEN s
    ELSE IF IsSpace(Head(s)) THEN TrimLeft(Tail(s)) ELSE s

RECURSIVE TrimRight(_)
TrimRight(s) ==
    IF s = <<>> THEN s
    ELSE IF IsSpace(s[Len(s)]) THEN TrimRight(SubSeq(s, 1, Len(s) - 1)) ELSE s

Trim(s) == TrimRight(TrimLeft(s))

\* Number(value) of the slider values the form can hold.
NumberOf(v) == CASE v = "0" -> 0 [] v = "7" -> 7 [] OTHER -> 0

\* The truthiness tests of lines 48-53, per key.
FieldChosen(form, k) ==
    IF k = "min_score"
    THEN form[k] # "" /\ NumberOf(form[k]) > 0
    ELSE form[k] # ""

\* BuildFilterParams as it would be without the Number(...) > 0 test.
MutBuildFilterParamsKeepsZeroScore(form) ==
    [k \in {x \in FilterKeys : form[x] # ""} |-> form[k]]

\* The params object built by the apply-filters handler (lines 47-53).
BuildFilterParams(form) ==
    [k \in {x \in FilterKeys : FieldChosen(form, x)} |-> form[k]]

\* { ...params, page: n }
WithPage(params, n) == ("page" :> n) @@ params

\* The order in which the handlers put the keys into a params object
\* (lines 48-53, 58, 97-98, 104), which is the order URLSearchParams keeps.
KeyOrder ==
    << "genre", "year", "min_score", "runtime_min", "runtime_max",
       "query", "search_type", "page" >>

\* application/x-www-form-urlencoded of one character: a space becomes "+".
EncodeChar(c) == IF c = " " THEN "+" ELSE c

RECURSIVE EncodeText(_)
EncodeText(s) == IF s = <<>> THEN "" ELSE EncodeChar(Head(s)) \o EncodeText(Tail(s))

\* The value of a key as URLSearchParams writes it: String(value), encoded.
EncodeValue(k, v) ==
    CASE k = "page"  -> ToString(v)
      [] k = "query" -> EncodeText(v)
      [] OTHER       -> v

\* QueryPairs as it would be if every filter key were sent, set or not.
MutQueryPairsAllKeys(params) ==
    [i \in 1..Len(KeyOrder) |->
        << KeyOrder[i],
           IF KeyOrder[i] \in DOMAIN params
           THEN EncodeValue(KeyOrder[i], params[KeyOrder[i]]) ELSE "" >>]

\* The name/value pairs of new URLSearchParams(params) (line 161).
QueryPairs(params) ==
    LET present == SelectSeq(KeyOrder, LAMBDA k : k \in DOMAIN params)
    IN  [i \in 1..Len(present) |-> << present[i], EncodeValue(present[i], params[present[i]]) >>]

RECURSIVE JoinPairs(_)
JoinPairs(pairs) ==
    IF pairs = <<>> THEN ""
    ELSE pairs[1][1] \o "=" \o pairs[1][2]
         \o (IF Len(pairs) > 1 THEN "&" ELSE "") \o JoinPairs(Tail(pairs))

\* new URLSearchParams(params).toString() (line 161)
QueryString(params) == JoinPairs(QueryPairs(params))

\* params.page || 1 (line 176)
PageOrDefault(params) ==
    IF "page" \in DOMAIN params /\ params["page"] # 0 THEN params["page"] ELSE 1

\* data.total_pages || 1 (line 175): absent, null and 0 are falsy.
TotalPagesOrDefault(tp) ==
    IF tp.kind \in {"absent", "null"} \/ (tp.kind = "int" /\ tp.n = 0)
    THEN [kind |-> "int", n |-> 1]
    ELSE tp

\* HasMore as it would be with <= for <.
MutHasMoreInclusive(page, tp) ==
    LET totalPages == TotalPagesOrDefault(tp)
    IN  totalPages.kind = "int" /\ page <= totalPages.n

\* page < totalPages (line 176); a comparison with NaN is false.
HasMore(page, tp) ==
    LET totalPages == TotalPagesOrDefault(tp)
    IN  totalPages.kind = "int" /\ page < totalPages.n

\* The total-pages value a response stands for: the number, and 1 when the
\* field is absent or no number.
ClaimedTotal(tp) == IF tp.kind = "int" THEN tp.n ELSE 1

\* History: the total the response to the latest request reported, after
\* the default of line 175.
TotalAfter(total, latest, req, outcome, tp) ==
    IF outcome = "ok" /\ req.id = latest.id
    THEN ClaimedTotal(TotalPagesOrDefault(tp))
    ELSE total

\* --------------------------------------------------------------- state
VARIABLES
    currentPage,      \* line 26
    currentMode,      \* line 27
    lastQueryParams,  \* line 28
    castCache,        \* line 29: movie id -> cached body, NoRecord when absent
    genresPending,    \* the loadGenres() promise of line 34 has not settled
    form,             \* values of the five filter inputs (lines 4-9)
    listingInFlight,  \* loadMovies calls suspended at their fetch
    creditsInFlight,  \* openCastModal calls suspended at their fetch
    movieGrid,        \* what movieGrid shows: one chunk per rendered response
    showMoreVisible,  \* showMoreBtn.style.display is not "none"
    modalVisible,     \* modalOverlay lacks the class "hidden"
    modalContent,     \* the credit record modalContent was rendered from
    \* History, kept to state the properties; no handler reads it.
    issued,           \* number of listing requests issued so far
    lastReq,          \* the most recently issued listing request
    failedIds,        \* ids of the listing requests that ended in the catch
    lastTotal,        \* total pages the response to lastReq reported, 0 before it
    lastOp,           \* the handler or continuation that ran last
    opens,            \* number of view-cast clicks so far
    credHist          \* per movie id: opens, credits requests, whether a fetch
                      \* failed, whether an open began while one was in flight

vars ==
    << currentPage, currentMode, lastQueryParams, castCache, genresPending, form,
       listingInFlight, creditsInFlight, movieGrid, showMoreVisible, modalVisible,
       modalContent, issued, lastReq, failedIds, lastTotal, lastOp, opens, credHist >>

queryVars == << currentPage, currentMode, lastQueryParams >>

listingVars == << listingInFlight, issued, lastReq, failedIds, lastTotal >>

viewVars == << movieGrid, showMoreVisible >>

creditVars == << castCache, creditsInFlight, modalVisible, modalContent, opens, credHist >>

\* The record kept in lastOp: the handler, and for a continuation what its
\* fetch came back with.
Op(name) == [op |-> name, outcome |-> ""]

Init ==
    /\ currentPage = 1
    /\ currentMode = "default"
    /\ lastQueryParams = EmptyParams
    /\ castCache = [m \in MovieIds |-> NoRecord]
    /\ genresPending = TRUE
    /\ form = ClearedForm
    /\ listingInFlight = {}
    /\ creditsInFlight = {}
    /\ movieGrid = <<>>
    /\ showMoreVisible \in BOOLEAN   \* set by the page's markup, not by the script
    /\ modalVisible = FALSE
    /\ modalContent = NoRecord
    /\ issued = 0
    /\ lastReq = NoRequest
    /\ failedIds = {}
    /\ lastTotal = 0
    /\ lastOp = Op("load")
    /\ opens = 0
    /\ credHist = [m \in MovieIds |->
                     [opens |-> 0, calls |-> 0, failed |-> FALSE, overlapped |-> FALSE]]

\* ------------------------------------------------------------ listing
\* The request a loadMovies(params, options) call sends.
NewRequest(params, append) ==
    [id |-> issued + 1, params |-> params, qs |-> QueryString(params), append |-> append]

\* loadMovies up to its first await: the query string is built and the
\* fetch is sent (lines 160-163).
LoadMovies(params, append) ==
    /\ issued < MaxRequests
    /\ listingInFlight' = listingInFlight \cup {NewRequest(params, append)}
    /\ issued' = issued + 1
    /\ lastReq' = NewRequest(params, append)
    /\ lastTotal' = 0
    /\ UNCHANGED failedIds

\* loadGenres() settles (it catches its own errors, lines 141-143) and the
\* first page of the default listing is requested (lines 34-37).
Startup ==
    /\ genresPending
    /\ genresPending' = FALSE
    /\ LoadMovies(WithPage(EmptyParams, 1), FALSE)
    /\ lastOp' = Op("startup")
    /\ UNCHANGED << queryVars, form, viewVars, creditVars >>

\* applyBtn click (lines 46-59). The five inputs are written by the user
\* and by the clear and search handlers and read only here, so what the user
\* typed since they were last written is an input f of the click: it is f
\* the handler finds in the inputs (f = form when the user typed nothing).
ApplyFilters(f) ==
    /\ form' = f
    /\ currentMode' = "filtered"
    /\ currentPage' = 1
    /\ lastQueryParams' = BuildFilterParams(form')
    /\ LoadMovies(WithPage(BuildFilterParams(form'), 1), FALSE)
    /\ lastOp' = Op("apply")
    /\ UNCHANGED << genresPending, viewVars, creditVars >>

\* clearBtn click (lines 62-74).
ClearFilters ==
    /\ form' = ClearedForm
    /\ currentMode' = "default"
    /\ currentPage' = 1
    /\ lastQueryParams' = EmptyParams
    /\ LoadMovies(WithPage(EmptyParams, 1), FALSE)
    /\ lastOp' = Op("clear")
    /\ UNCHANGED << genresPending, viewVars, creditVars >>

\* SearchRejected as it would be without the trim.
MutSearchRejectedUntrimmed(text) == text = <<>>

\* The early return of doSearch (lines 84-85).
SearchRejected(text) == Trim(text) = <<>>

\* SearchParams as it would be if the text were stored as typed.
MutSearchParamsUntrimmed(text, stype) == ("query" :> text) @@ ("search_type" :> stype)

\* The params doSearch stores (line 97).
SearchParams(text, stype) == ("query" :> Trim(text)) @@ ("search_type" :> stype)

\* doSearch (lines 83-99), from the button or the Enter key.
DoSearch(text, stype) ==
    /\ IF SearchRejected(text)
       THEN /\ lastOp' = Op("searchRejected")
            /\ UNCHANGED << queryVars, form, listingVars >>
       ELSE /\ lastOp' = Op("search")
            /\ form' = ClearedForm
            /\ currentMode' = "search"
            /\ currentPage' = 1
            /\ lastQueryParams' = SearchParams(text, stype)
            /\ LoadMovies(WithPage(SearchParams(text, stype), 1), FALSE)
    /\ UNCHANGED << genresPending, viewVars, creditVars >>

\* NextPageNumber as it would be if the counter were advanced twice.
MutNextPageSkips(page) == page + 2

\* The page the show-more handler moves to (line 103).
NextPageNumber(page) == page + 1

\* showMoreBtn click (lines 102-106); the button can be clicked while shown.
ShowMore ==
    /\ showMoreVisible
    /\ currentPage' = NextPageNumber(currentPage)
    /\ LoadMovies(WithPage(lastQueryParams, currentPage'), TRUE)
    /\ lastOp' = Op("showMore")
    /\ UNCHANGED << currentMode, lastQueryParams, genresPending, form, viewVars, creditVars >>

\* One rendered response: the request it answers and how far rendering got.
Chunk(req, part) == [params |-> req.params, part |-> part]

\* AppendMovies as it would be if the cards were kept in page order.
MutAppendMoviesInPageOrder(grid, req, outcome) ==
    IF outcome \notin {"ok", "badItem"} THEN grid
    ELSE LET c == [params |-> req.params,
                   part |-> IF outcome = "ok" THEN "full" ELSE "partial"]
         IN  IF grid # <<>> /\ grid[Len(grid)].params["page"] > req.params["page"]
             THEN SubSeq(grid, 1, Len(grid) - 1) \o << c, grid[Len(grid)] >>
             ELSE Append(grid, c)

\* appendMovies (lines 193-242) on the cards of one response.
AppendMovies(grid, req, outcome) ==
    CASE outcome = "ok"         -> Append(grid, Chunk(req, "full"))
      [] outcome = "badItem"    -> Append(grid, Chunk(req, "partial"))
      [] OTHER                  -> grid

\* renderMovies (lines 187-190): clear, then append.
RenderMovies(grid, req, outcome) == AppendMovies(<<>>, req, outcome)

\* The grid after lines 165-172 ran as far as they get.
GridAfter(grid, req, outcome) ==
    IF outcome \in {"reject", "unparsable"} THEN grid
    ELSE IF req.append THEN AppendMovies(grid, req, outcome)
    ELSE RenderMovies(grid, req, outcome)

\* The affordance after lines 174-180, which run only when nothing threw.
ShowMoreAfter(visible, req, outcome, tp) ==
    IF outcome = "ok" THEN HasMore(PageOrDefault(req.params), tp) ELSE visible

\* LoadMoviesSettle as it would be if a failed request were sent again.
MutLoadMoviesSettleRetries(req, outcome, tp) ==
    /\ req \in listingInFlight
    /\ tp = NoTotalPages \/ outcome = "ok"
    /\ movieGrid' = GridAfter(movieGrid, req, outcome)
    /\ showMoreVisible' = ShowMoreAfter(showMoreVisible, req, outcome, tp)
    /\ lastOp' = [Op("listingResponse") EXCEPT !.outcome = outcome]
    /\ failedIds' = IF outcome = "ok" THEN failedIds ELSE failedIds \cup {req.id}
    /\ lastTotal' = TotalAfter(lastTotal, lastReq, req, outcome, tp)
    /\ IF outcome \in {"reject", "unparsable"} /\ issued < MaxRequests
       THEN /\ issued' = issued + 1
            /\ lastReq' = [req EXCEPT !.id = issued + 1]
            /\ listingInFlight' = (listingInFlight \ {req}) \cup {[req EXCEPT !.id = issued + 1]}
       ELSE /\ listingInFlight' = listingInFlight \ {req}
            /\ UNCHANGED << issued, lastReq >>
    /\ UNCHANGED << queryVars, genresPending, form, creditVars >>

\* The continuation of loadMovies once its fetch settled (lines 163-183).
LoadMoviesSettle(req, outcome, tp) ==
    /\ req \in listingInFlight
    /\ listingInFlight' = listingInFlight \ {req}
    /\ movieGrid' = GridAfter(movieGrid, req, outcome)
    /\ showMoreVisible' = ShowMoreAfter(showMoreVisible, req, outcome, tp)
    /\ tp = NoTotalPages \/ outcome = "ok"
    /\ lastOp' = [Op("listingResponse") EXCEPT !.outcome = outcome]
    /\ failedIds' = IF outcome = "ok" THEN failedIds ELSE failedIds \cup {req.id}
    /\ lastTotal' = TotalAfter(lastTotal, lastReq, req, outcome, tp)
    /\ UNCHANGED << queryVars, genresPending, form, issued, lastReq, creditVars >>

\* ------------------------------------------------------------ credits
\* Some card has its view-cast handler attached (lines 235-241): the
\* handlers are attached at the end of an appendMovies call that did not throw.
CardWired(grid) == \E i \in 1..Len(grid) : grid[i].part = "full"

\* CacheMiss as it would be if the cached value were never found.
MutCacheMissAlways(data) == TRUE

\* The truthiness test of line 255 on what castCache.get returned.
CacheMiss(data) == data = NoRecord

\* Lines 261-278 on a credit record: the modal is filled and shown unless
\* building the markup throws.
Renderable(data) == data.kind # "bad"

ModalContentAfter(content, data) == IF Renderable(data) THEN data ELSE content

ModalVisibleAfter(visible, data) == IF Renderable(data) THEN TRUE ELSE visible

\* CacheAfterFetch as it would be if the set were done before the fetch was
\* known to have succeeded.
MutCacheStoresFailure(cache, id, outcome) ==
    [cache EXCEPT ![id] = [id |-> id, kind |-> outcome]]

\* The cache after the continuation of lines 256-258.
CacheAfterFetch(cache, id, outcome) ==
    IF outcome \in CreditFailures
    THEN cache
    ELSE [cache EXCEPT ![id] = [id |-> id, kind |-> outcome]]

\* A view-cast click: openCastModal up to its first await, or to its end
\* when the cache answers (lines 251-282).
OpenCastModal(id) ==
    /\ opens < MaxOpens
    /\ CardWired(movieGrid)
    /\ opens' = opens + 1
    /\ lastOp' = Op("open")
    /\ IF CacheMiss(castCache[id])
       THEN /\ creditsInFlight' = creditsInFlight \cup {[id |-> id, n |-> opens + 1]}
            /\ UNCHANGED << modalVisible, modalContent >>
       ELSE /\ modalContent' = ModalContentAfter(modalContent, castCache[id])
            /\ modalVisible' = ModalVisibleAfter(modalVisible, castCache[id])
            /\ UNCHANGED creditsInFlight
    /\ credHist' = [credHist EXCEPT
         ![id].opens = @ + 1,
         ![id].calls = IF CacheMiss(castCache[id]) THEN @ + 1 ELSE @,
         ![id].overlapped = @ \/ (\E r \in creditsInFlight : r.id = id)]
    /\ UNCHANGED << castCache, queryVars, genresPending, form, listingVars, viewVars >>

\* The continuation of openCastModal once its fetch settled (lines 256-281).
OpenCastSettle(r, outcome) ==
    /\ r \in creditsInFlight
    /\ creditsInFlight' = creditsInFlight \ {r}
    /\ castCache' = CacheAfterFetch(castCache, r.id, outcome)
    /\ IF outcome \in CreditFailures
       THEN UNCHANGED << modalVisible, modalContent >>
       ELSE /\ modalContent' = ModalContentAfter(modalContent, castCache'[r.id])
            /\ modalVisible' = ModalVisibleAfter(modalVisible, castCache'[r.id])
    /\ credHist' = [credHist EXCEPT ![r.id].failed = @ \/ (outcome \in CreditFailures)]
    /\ lastOp' = [Op("creditsResponse") EXCEPT !.outcome = outcome]
    /\ UNCHANGED << opens, queryVars, genresPending, form, listingVars, viewVars >>

\* closeModal (lines 284-286), from the X, the overlay or the Escape key.
CloseModal ==
    /\ modalVisible' = FALSE
    /\ lastOp' = Op("close")
    /\ UNCHANGED << castCache, creditsInFlight, modalContent, opens, credHist,
                    queryVars, genresPending, form, listingVars, viewVars >>

\* ------------------------------------------------------- specification
\* The handlers of the query state and the listing loader.
NextListing ==
    \/ Startup
    \/ \E f \in FormChoices : ApplyFilters(f)
    \/ ClearFilters
    \/ \E text \in SearchTexts, stype \in SearchTypes : DoSearch(text, stype)
    \/ ShowMore
    \/ \E req \in listingInFlight, outcome \in ListingOutcomes, tp \in TotalPagesValues :
          LoadMoviesSettle(req, outcome, tp)

\* The handlers of the cast modal and its cache.
NextCredits ==
    \/ \E id \in MovieIds : OpenCastModal(id)
    \/ \E r \in creditsInFlight, outcome \in CreditOutcomes : OpenCastSettle(r, outcome)
    \/ CloseModal

\* The startup load alone, which puts the cards on the page.
NextFirstPage ==
    \/ Startup
    \/ \E req \in listingInFlight, outcome \in ListingOutcomes, tp \in TotalPagesValues :
          LoadMoviesSettle(req, outcome, tp)

\* Applying any one combination of the filter inputs as the first query
\* (the handler overwrites all it reads, so what came before plays no part),
\* and paging through the result.
NextFilters ==
    \/ \E f \in AllForms : issued = 0 /\ ApplyFilters(f)
    \/ ShowMore
    \/ \E req \in listingInFlight, outcome \in ListingOutcomes, tp \in TotalPagesValues :
          LoadMoviesSettle(req, outcome, tp)

\* Every handler of the page, each with one input: the cleared form, one
\* search text, one item, and responses that fail or succeed, two pages
\* being the total of every query.
NextRequests ==
    \/ Startup
    \/ ApplyFilters(ClearedForm)
    \/ ClearFilters
    \/ DoSearch(<< " ", "d", " " >>, "title")
    \/ ShowMore
    \/ \E req \in listingInFlight, outcome \in {"reject", "ok"} :
          LoadMoviesSettle(req, outcome, IF outcome = "ok" THEN [kind |-> "int", n |-> 2]
                                                           ELSE NoTotalPages)
    \/ OpenCastModal("m1")
    \/ \E r \in creditsInFlight, outcome \in {"reject", "v1"} : OpenCastSettle(r, outcome)
    \/ CloseModal

Next == NextListing \/ NextCredits

\* The whole page.
Spec == Init /\ [][Next]_vars

\* The listing handlers never read or write the cache, the credits requests
\* or the modal, and the modal handlers read the grid only to find a card to
\* click and write nothing the listing handlers read. The two halves are
\* therefore explored separately: the listing half with every listing
\* handler, the modal half over the grid of the startup load.
SpecListing == Init /\ [][NextListing]_vars

SpecCredits == Init /\ [][NextFirstPage \/ NextCredits]_vars

\* The whole page, with one input for each handler.
SpecRequests == Init /\ [][NextRequests]_vars

\* The apply-filters handler over all 32 contents of the form.
SpecFilters == Init /\ [][NextFilters]_vars

\* ---------------------------------------------------------------- claims
\* The request most recently issued was issued by this step, in the given
\* mode, for the given stored params and page.
IssuedNow(stored, page, append) ==
    /\ lastReq' \in listingInFlight' \ listingInFlight
    /\ listingInFlight' = listingInFlight \cup {lastReq'}
    /\ issued' = issued + 1
    /\ lastReq'.append = append
    /\ DOMAIN lastReq'.params = DOMAIN stored \cup {"page"}
    /\ lastReq'.params["page"] = page
    /\ \A k \in DOMAIN stored : lastReq'.params[k] = stored[k]

\* The failures of a fetch proper: the request rejected, the body unparsable.
FetchFailures == {"reject", "unparsable"}

\* C1: a failed listing load leaves the page counter as it was before the
\* load was asked for: when the request of the latest show-more click fails,
\* the counter is back at the page before the click, so that the next click
\* asks for that page + 1 again.
C1_FailedShowMoreKeepsCounter ==
    [][\A req \in listingInFlight :
          (/\ req = lastReq
           /\ req.append
           /\ \E o \in FetchFailures : LoadMoviesSettle(req, o, NoTotalPages))
          => currentPage' = req.params["page"] - 1]_vars

\* C2: once a listing request has been issued, the page counter equals the
\* page argument of the most recently issued listing request.
C2_CounterIsLastRequestedPage ==
    issued > 0 => currentPage = lastReq.params["page"]

C4_FailedFetchCachesNothing ==
    [][/\ \A r \in creditsInFlight : \A o \in CreditFailures :
              OpenCastSettle(r, o) => castCache' = castCache
       /\ \A id \in MovieIds :
              (castCache[id] = NoRecord /\ OpenCastModal(id))
              => \E r \in creditsInFlight' \ creditsInFlight : r.id = id]_vars

\* C4 witness: the first fetch for an item failed, the item was opened
\* again, a second request went out and its record is now cached.
C4_Witness ==
    \E id \in MovieIds :
        /\ credHist[id].failed
        /\ ~credHist[id].overlapped
        /\ credHist[id].calls = 2
        /\ castCache[id] # NoRecord
        /\ modalVisible

\* C5: after a successful listing load for page p with total pages t, the
\* affordance is visible iff p < t, t being 1 when absent or malformed.
C5_AffordanceIffMorePages ==
    [][\A req \in listingInFlight : \A tp \in TotalPagesValues :
          LoadMoviesSettle(req, "ok", tp)
          => (showMoreVisible' <=> req.params["page"] < ClaimedTotal(tp))]_vars

\* C5 witness: a second page was appended successfully and more remain.
C5_Witness ==
    /\ lastOp = [op |-> "listingResponse", outcome |-> "ok"]
    /\ Len(movieGrid) = 2
    /\ movieGrid[2].params["page"] = 2
    /\ showMoreVisible

\* C6: a listing load that fails, the body that cannot be processed
\* included, leaves the rendered list and the affordance as they were.
C6_FailedLoadLeavesView ==
    [][\A req \in listingInFlight : \A o \in ListingOutcomes \ {"ok"} :
          LoadMoviesSettle(req, o, NoTotalPages) => UNCHANGED viewVars]_vars

\* C7: a search whose text is empty after trimming changes neither the
\* mode, the page counter nor the stored params, and issues no request.
C7_EmptySearchHasNoEffect ==
    [][\A text \in SearchTexts : \A stype \in SearchTypes :
          (Trim(text) = <<>> /\ DoSearch(text, stype))
          => UNCHANGED << queryVars, listingVars, form, viewVars >>]_vars

\* C7 witness: an empty search was just rejected while a filtered query on
\* a later page was current.
C7_Witness ==
    /\ lastOp.op = "searchRejected"
    /\ currentMode = "filtered"
    /\ currentPage = 2

\* C8: a show-more click before any listing request was issued neither
\* increments the page counter nor issues a request.
C8_ShowMoreBeforeFirstQueryRejected ==
    [][(issued = 0 /\ ShowMore) => UNCHANGED << currentPage, listingVars >>]_vars

\* C9: a show-more click increments the page counter by exactly 1, issues
\* one append request carrying the stored params plus the new page, and
\* leaves the stored params alone.
C9_ShowMoreRequestsNextPage ==
    [][ShowMore
       => /\ currentPage' = currentPage + 1
          /\ IssuedNow(lastQueryParams, currentPage + 1, TRUE)
          /\ UNCHANGED << lastQueryParams, currentMode >>]_vars

\* C9 witness: show-more was just clicked on page 1 of a search.
C9_Witness ==
    /\ lastOp.op = "showMore"
    /\ currentMode = "search"
    /\ currentPage = 2
    /\ lastReq.params["page"] = 2

\* The filter params the claim expects for a form: the inputs that hold a
\* value, a score of 0 counting as none.
ChosenFilters(f) ==
    [k \in {x \in FilterKeys : f[x] # "" /\ ~(x = "min_score" /\ f[x] = "0")} |-> f[k]]

\* C10: apply, an accepted search and clear each reset the page counter to
\* 1, replace mode and stored params whatever they were, and request the
\* stored params plus page 1 in replace mode.
C10_QueryStartResetsState ==
    [][/\ \A f \in FormChoices :
              ApplyFilters(f)
              => /\ currentMode' = "filtered"
                 /\ currentPage' = 1
                 /\ lastQueryParams' = ChosenFilters(f)
                 /\ IssuedNow(lastQueryParams', 1, FALSE)
       /\ \A text \in SearchTexts : \A stype \in SearchTypes :
              (Trim(text) # <<>> /\ DoSearch(text, stype))
              => /\ currentMode' = "search"
                 /\ currentPage' = 1
                 /\ DOMAIN lastQueryParams' = {"query", "search_type"}
                 /\ lastQueryParams'["query"] = Trim(text)
                 /\ lastQueryParams'["search_type"] = stype
                 /\ IssuedNow(lastQueryParams', 1, FALSE)
       /\ ClearFilters
              => /\ currentMode' = "default"
                 /\ currentPage' = 1
                 /\ lastQueryParams' = EmptyParams
                 /\ IssuedNow(lastQueryParams', 1, FALSE)]_vars

\* C10 witness: filters were just applied while the results of a search
\* were on the page.
C10_Witness ==
    /\ lastOp.op = "apply"
    /\ currentPage = 1
    /\ "genre" \in DOMAIN lastQueryParams
    /\ lastReq.params = WithPage(lastQueryParams, 1)
    /\ \E i \in 1..Len(movieGrid) : "query" \in DOMAIN movieGrid[i].params

\* The pairs the claim expects for a form and a page: the inputs whose
\* value is not empty, in the order of the form, then the page.
FilledPairs(f, page) ==
    LET order  == << "genre", "year", "min_score", "runtime_min", "runtime_max" >>
        filled == SelectSeq(order, LAMBDA k : f[k] # "")
    IN  [i \in 1..Len(filled) |-> << filled[i], f[filled[i]] >>]
            \o << << "page", ToString(page) >> >>

\* The same, a minimum score of 0 counting as no value.
ChosenPairs(f, page) ==
    LET order  == << "genre", "year", "min_score", "runtime_min", "runtime_max" >>
        chosen == SelectSeq(order, LAMBDA k : f[k] # "" /\ ~(k = "min_score" /\ f[k] = "0"))
    IN  [i \in 1..Len(chosen) |-> << chosen[i], f[chosen[i]] >>]
            \o << << "page", ToString(page) >> >>

\* C11 as claimed: for every content of the filter inputs the query sent
\* has exactly the keys whose input is not empty, plus page.
C11_QueryHasFilledKeys ==
    [][\A f \in AllForms :
          ApplyFilters(f) => QueryPairs(lastReq'.params) = FilledPairs(f, 1)]_vars

\* C11 as amended: every listing request carries only keys with a non-empty
\* value, and for every content of the filter inputs the query sent has
\* exactly the keys whose input holds a value, a minimum score of 0 counting
\* as none, plus page; genre 28 with score 7 is sent as
\* genre=28&min_score=7&page=1.
C11_QueryHasChosenKeys ==
    [][/\ \A f \in AllForms :
              ApplyFilters(f)
              => /\ QueryPairs(lastReq'.params) = ChosenPairs(f, 1)
                 /\ lastReq'.qs = JoinPairs(ChosenPairs(f, 1))
                 /\ (f.genre = "28" /\ f.min_score = "7" /\ f.year = ""
                        /\ f.runtime_min = "" /\ f.runtime_max = "")
                    => lastReq'.qs = "genre=28&min_score=7&page=1"
       /\ \A req \in listingInFlight' :
              \A i \in 1..Len(QueryPairs(req.params)) : QueryPairs(req.params)[i][2] # ""]_vars

\* C11 witness: genre 28 and score 7 were applied and the query of the
\* example is in flight.
C11_Witness ==
    /\ lastOp.op = "apply"
    /\ lastReq \in listingInFlight
    /\ lastReq.qs = "genre=28&min_score=7&page=1"

\* C12: once an id is in the credit cache its record never changes and the
\* id is never removed, also when the item is opened again while an earlier
\* credits request for it is in flight.
C12_CacheEntryNeverChanges ==
    [][\A id \in MovieIds :
          castCache[id] # NoRecord => castCache'[id] = castCache[id]]_vars

\* C13: a show-more click made while the request of the previous click is
\* in flight issues a second, concurrent request for the next page; a
\* show-more response that succeeds is appended, once, at the end of the
\* list as it is when the response arrives, whatever was requested first.
C13_ConcurrentShowMoreAppendsOnArrival ==
    [][/\ (ShowMore /\ lastReq.append /\ lastReq \in listingInFlight)
          => /\ lastReq'.params["page"] = lastReq.params["page"] + 1
             /\ {lastReq, lastReq'} \subseteq listingInFlight'
             /\ lastReq'.id # lastReq.id
       /\ \A req \in listingInFlight : \A tp \in TotalPagesValues :
              (req.append /\ LoadMoviesSettle(req, "ok", tp))
              => /\ movieGrid' = Append(movieGrid, [params |-> req.params, part |-> "full"])
                 /\ req \notin listingInFlight']_vars

\* C13 witness: pages 2 and 3 were requested in that order while both were
\* in flight, and page 3 arrived and was appended first.
C13_Witness ==
    /\ Len(movieGrid) >= 2
    /\ listingInFlight = {}
    /\ lastReq.append
    /\ LET n == Len(movieGrid)
       IN  /\ movieGrid[n - 1].part = "full"
           /\ movieGrid[n].part = "full"
           /\ movieGrid[n - 1].params["page"] = movieGrid[n].params["page"] + 1
           /\ movieGrid[n - 1].params = lastReq.params

\* Both arrival orders occur: the same two pages appended in request order.
C13_InOrderArrival ==
    /\ Len(movieGrid) >= 2
    /\ listingInFlight = {}
    /\ lastReq.append
    /\ LET n == Len(movieGrid)
       IN  /\ movieGrid[n].part = "full"
           /\ movieGrid[n - 1].part = "full"
           /\ movieGrid[n].params["page"] = movieGrid[n - 1].params["page"] + 1
           /\ movieGrid[n].params = lastReq.params

\* C14: no request is retried. A step issues at most one request; a
\* listing request is issued only by startup, apply, clear, search or
\* show-more, a credits request only by opening an item; the arrival of a
\* response, failed or not, issues nothing.
C14_NoAutomaticRetry ==
    [][/\ issued' \in {issued, issued + 1}
       /\ Cardinality(listingInFlight' \ listingInFlight) = issued' - issued
       /\ Cardinality(creditsInFlight' \ creditsInFlight) <= 1
       /\ listingInFlight' \ listingInFlight # {}
          => /\ lastOp'.op \in {"startup", "apply", "clear", "search", "showMore"}
             /\ creditsInFlight' \subseteq creditsInFlight
       /\ creditsInFlight' \ creditsInFlight # {}
          => /\ lastOp'.op = "open"
             /\ listingInFlight' \subseteq listingInFlight
       /\ lastOp'.op \in {"listingResponse", "creditsResponse"}
          => /\ issued' = issued
             /\ listingInFlight' \subseteq listingInFlight
             /\ creditsInFlight' \subseteq creditsInFlight]_vars

\* C14 witness: a listing request has just failed after a credits request
\* failed too, and nothing is in flight.
C14_Witness ==
    /\ lastOp = [op |-> "listingResponse", outcome |-> "reject"]
    /\ \E id \in MovieIds : credHist[id].failed
    /\ listingInFlight = {}
    /\ creditsInFlight = {}
    /\ issued >= 2

\* Pages 1..n of the query described by the stored params, each rendered
\* in full.
PagesOfQuery(stored, n) ==
    [i \in 1..n |-> [params |-> WithPage(stored, i), part |-> "full"]]

\* C15: once a request has been issued, whenever no listing request is in
\* flight and none has failed, the grid is pages 1..currentPage of the query
\* described by lastQueryParams, in page order.
C15_GridIsPagesOfCurrentQuery ==
    (issued > 0 /\ listingInFlight = {} /\ failedIds = {})
    => movieGrid = PagesOfQuery(lastQueryParams, currentPage)

\* The request asks for a page of the query described by the stored params.
OfQuery(req, stored) == req.params = WithPage(stored, req.params["page"])

\* C16: with show-more clicked only while the button is shown, no request
\* is out for a page beyond the total of the current query: when a response
\* for the current query reports its total, every other request in flight
\* for that query asks for a page within it.
C16_NoRequestBeyondTotalPages ==
    [][\A req \in listingInFlight, tp \in TotalPagesValues :
          (/\ LoadMoviesSettle(req, "ok", tp)
           /\ tp.kind = "int" /\ tp.n >= 1
           /\ OfQuery(req, lastQueryParams))
          => \A r \in listingInFlight \ {req} :
                 OfQuery(r, lastQueryParams) => r.params["page"] <= tp.n]_vars

\* C17: whenever no listing request is in flight and the latest request,
\* one for the current query, succeeded, the affordance is visible iff
\* currentPage is less than the total pages its response reported.
C17_AffordanceReflectsLatestRequest ==
    (/\ issued > 0
     /\ listingInFlight = {}
     /\ lastReq.id \notin failedIds
     /\ OfQuery(lastReq, lastQueryParams))
    => (showMoreVisible <=> currentPage < lastTotal)

\* C18: the mode and the stored params agree. Default: no keys. Search:
\* exactly query and search_type, the query non-empty and trimmed. Filtered:
\* only filter keys. The stored params never hold a page key, and the page
\* counter is at least 1.
C18_ModeAndParamsAgree ==
    /\ currentMode \in {"default", "search", "filtered"}
    /\ currentMode = "default" => lastQueryParams = EmptyParams
    /\ currentMode = "search"
       => /\ DOMAIN lastQueryParams = {"query", "search_type"}
          /\ lastQueryParams["query"] # <<>>
          /\ lastQueryParams["query"] = Trim(lastQueryParams["query"])
    /\ currentMode = "filtered" => DOMAIN lastQueryParams \subseteq FilterKeys
    /\ "page" \notin DOMAIN lastQueryParams
    /\ currentPage >= 1

\* C18 witness: a search whose text was typed with spaces around it is the
\* current query, and a show-more click has moved the counter on.
C18_Witness ==
    /\ currentMode = "search"
    /\ lastQueryParams["query"] = << "d" >>
    /\ lastOp.op = "showMore"
    /\ currentPage = 2

\* C19: after the user closed the modal it stays hidden until an item is
\* opened again: the step after a close, unless it is a view-cast click,
\* leaves the modal hidden, also when it is the arrival of a credits
\* response.
C19_ClosedModalStaysHidden ==
    [][(lastOp.op = "close" /\ lastOp'.op # "open") => ~modalVisible']_vars

====
